---- MODULE Spec2Model ----
(***************************************************************************)
(* A model of the commit log of server/commitlog/commitlog.go: the segment *)
(* list, the atomic active-segment pointer, segment rotation, truncation,  *)
(* the high watermark with its waiters and its checkpoint file, and the    *)
(* two background loops.                                                   *)
(*                                                                         *)
(* Granularity.  Every critical section of l.mu is one action.  The steps  *)
(* of Append and of checkAndPerformSplit that run outside l.mu (the atomic *)
(* loads of the active pointer, the creation of a segment, the compare-    *)
(* and-swap, the segment write, Seal) are actions of their own, one per    *)
(* thread position.  The two loads of Append (activeSegment(), then        *)
(* NextOffset()) are one action: neither changes state, and every write    *)
(* that could fall between them commutes with the first.                   *)
(*                                                                         *)
(* Segment, the cleaner and the find* helpers are not part of the source   *)
(* at hand; they are modelled from their documented contract.  A message   *)
(* occupies one byte, so a segment's position is its number of records;    *)
(* index positions are not modelled.  File operations succeed, except in   *)
(* the actions named ...Fails, which the specifications with failures add.  *)
(***************************************************************************)
EXTENDS Integers, Sequences, FiniteSets, TLC

\* ------------------------------------------------------------- bounds
MaxOffset == 3          \* Append is offered while every offset stays <= MaxOffset
MaxBatch == 2           \* messages per Append
MaxSegmentBytes == 2    \* Options.MaxSegmentBytes of the modelled log
MaxSegs == 4            \* live Segment objects
MaxHW == 2              \* SetHighWatermark arguments range over -1..MaxHW
BigHW == 12             \* one more argument, with two decimal digits
MaxTs == 3              \* message timestamps range over 1..MaxTs

Appenders == {"a1", "a2"}
Cleaner == "cl"
Truncater == "tr"       \* the caller of a Truncate that may fail part-way
Threads == Appenders \cup {Cleaner, Truncater}
Readers == {"r1", "r2"}
NoSeg == 0
SegIds == 1..MaxSegs
NoFile == <<"absent">>

\* ------------------------------------------------- strconv (checkpoint)
Digit(d) == <<"0", "1", "2", "3", "4", "5", "6", "7", "8", "9">>[d + 1]

RECURSIVE Digits(_)
Digits(n) == IF n < 10 THEN <<Digit(n)>> ELSE Digits(n \div 10) \o <<Digit(n % 10)>>

\* strconv.FormatInt(hw, 10)
FormatInt_Unsigned(n) == IF n < 0 THEN Digits(0 - n) ELSE Digits(n)
FormatInt(n) == IF n < 0 THEN <<"-">> \o Digits(0 - n) ELSE Digits(n)

DigitValue(c) == CHOOSE d \in 0..9 : Digit(d) = c
IsDigit(c) == \E d \in 0..9 : Digit(d) = c

RECURSIVE ParseDigits(_, _)
ParseDigits(s, acc) ==
    IF s = <<>> THEN acc ELSE ParseDigits(Tail(s), acc * 10 + DigitValue(Head(s)))

\* strconv.ParseInt(string(b), 10, 64): [ok, val]
ParseInt(s) ==
    LET body == IF s # <<>> /\ Head(s) \in {"-", "+"} THEN Tail(s) ELSE s
        good == body # <<>> /\ \A i \in 1..Len(body) : IsDigit(body[i])
    IN  IF ~good THEN [ok |-> FALSE, val |-> 0]
        ELSE [ok |-> TRUE,
              val |-> IF Head(s) = "-" THEN 0 - ParseDigits(body, 0)
                      ELSE ParseDigits(body, 0)]

\* ------------------------------------------------------------ Segment
\* A fresh segment: NewSegment(path, baseOffset, maxBytes, true).
NewSegment(baseOffset) ==
    [BaseOffset |-> baseOffset, nextOffset |-> baseOffset, log |-> <<>>,
     sealed |-> FALSE, deleted |-> FALSE, closed |-> FALSE]

Position(s) == Len(s.log)
NextOffset(s) == s.nextOffset

\* Segment.CheckSplit(logRollTime): full, or LogRollTime has passed since the
\* first write; rollDue is the clock's answer.
CheckSplit(s, rollDue) ==
    Position(s) >= MaxSegmentBytes \/ (s.log # <<>> /\ rollDue)

\* NewMessageSetFromProto(baseOffset, basePosition, msgs): one entry per message,
\* offsets baseOffset, baseOffset+1, ...; msgs is the sequence of timestamps.
NewMessageSetFromProto(baseOffset, msgs) ==
    [i \in 1..Len(msgs) |-> [off |-> baseOffset + i - 1, ts |-> msgs[i]]]

\* Whether Segment.WriteMessageSet accepts the entries: a sealed, deleted or closed
\* segment takes no write, and a non-empty one refuses to grow beyond maxBytes.
CanWrite(s, entries) ==
    /\ ~s.sealed /\ ~s.deleted /\ ~s.closed
    /\ (s.log = <<>> \/ Position(s) + Len(entries) <= MaxSegmentBytes)

\* Segment.WriteMessageSet(ms, entries)
WriteMessageSet(s, entries) ==
    [s EXCEPT !.log = @ \o entries,
              !.nextOffset = entries[Len(entries)].off + 1]

Seal(s) == [s EXCEPT !.sealed = TRUE]
Delete(s) == [s EXCEPT !.deleted = TRUE, !.closed = TRUE]
CloseSegment(s) == [s EXCEPT !.closed = TRUE]

\* Segment.findEntryByTimestamp(ts): index (in the segment's log) of the earliest
\* entry whose timestamp is >= ts, 0 when there is none (ErrEntryNotFound).
findEntryByTimestamp(s, timestamp) ==
    LET hits == {i \in 1..Len(s.log) : s.log[i].ts >= timestamp}
    IN  IF hits = {} THEN 0 ELSE CHOOSE i \in hits : \A j \in hits : i <= j

\* findSegment(segments, offset): the index (1-based) of the segment of the list sg
\* that contains the offset, 0 when there is none.  h maps a Segment to its state.
findSegment(h, sg, offset) ==
    LET hits == {i \in 1..Len(sg) :
                    h[sg[i]].BaseOffset <= offset /\ offset < h[sg[i]].nextOffset}
    IN  IF hits = {} THEN 0 ELSE CHOOSE i \in hits : \A j \in hits : i <= j

\* findSegmentIndexByTimestamp(segments, timestamp): "the first segment whose base
\* timestamp is greater than the given timestamp", as a 0-based index, Len(sg) when
\* there is none.  A segment without a first entry has no base timestamp: error.
findSegmentIndexByTimestamp(h, sg, timestamp) ==
    LET later == {i \in 1..Len(sg) : h[sg[i]].log[1].ts > timestamp}
    IN  IF \E i \in 1..Len(sg) : h[sg[i]].log = <<>>
        THEN [err |-> TRUE, idx |-> 0]
        ELSE [err |-> FALSE,
              idx |-> IF later = {} THEN Len(sg)
                      ELSE (CHOOSE i \in later : \A j \in later : i <= j) - 1]

\* Cleaner.Clean(segments): the numbers of oldest segments a retention policy may
\* delete; the last segment is never deleted.
CleanChoices(sg) == 0..(Len(sg) - 1)

\* -------------------------------------------------------------- state
VARIABLES
    heap,            \* Segment objects: pointer -> state
    segments,        \* l.segments: sequence of pointers
    vActiveSegment,  \* l.vActiveSegment
    hw,              \* l.hw
    hwWaiters,       \* l.hwWaiters: the readers with a registered channel
    closed,          \* whether l.closed is closed
    hwFile,          \* contents of replication-offset-checkpoint, or NoFile
    pc,              \* position of each appender and of cleanerLoop
    loc,             \* their local variables
    ckpt,            \* position of checkpointHWLoop
    sig,             \* per reader, the channel its last waitForHW returned
    lastOp,          \* the call the last step completed, with its result
    hwRead,          \* the last value HighWatermark() returned
    hwAtClose,       \* what HighWatermark() returned just before the last Close
    returned,        \* the offsets successful Appends returned, less those truncated
    dupOffsets,      \* the offsets two successful Appends have returned
    crashed          \* the process panicked

vars == <<heap, segments, vActiveSegment, hw, hwWaiters, closed, hwFile, pc, loc,
          ckpt, sig, lastOp, hwRead, hwAtClose, returned, dupOffsets,
          crashed>>

logVars == <<heap, segments, vActiveSegment>>
hwVars == <<hw, hwWaiters, sig, hwRead, hwFile, ckpt, hwAtClose>>
thrVars == <<pc, loc>>
histVars == <<returned, dupOffsets>>

\* before: NewestOffset() at the entry of the call (kept for the postcondition).
\* idx, i: Truncate's idx (1-based) and the index of its delete loop.
NoLoc == [seg |-> NoSeg, new |-> NoSeg, base |-> 0, msgs |-> <<>>, split |-> FALSE,
          before |-> 0, idx |-> 0, i |-> 0]
NoSig == [st |-> "none", h |-> 0, removed |-> FALSE]
\* A completed call: its name, argument and error; offs: the offsets Append
\* returned; res: the value returned (HighWatermark, OffsetForTimestamp), the
\* number of records Truncate removed from the list, the number of channels
\* SetHighWatermark closed; flag: Append performed a split, SetHighWatermark
\* raised hw.
Op(name, arg, err) ==
    [op |-> name, arg |-> arg, err |-> err, offs |-> <<>>, res |-> 0, flag |-> FALSE,
     by |-> "none"]
NoOp == Op("none", 0, "nil")

\* l.activeSegment(), l.NewestOffset(), l.OldestOffset()
activeSegment == heap[vActiveSegment]
NewestOffset == NextOffset(activeSegment) - 1
OldestOffset == heap[segments[1]].BaseOffset

\* The records of the listed segments.
Listed(h, sg) == UNION {{h[sg[i]].log[j] : j \in 1..Len(h[sg[i]].log)} : i \in 1..Len(sg)}

\* Segment objects are garbage-collected: only those the list, the active pointer
\* or a thread's locals still reference are kept.
Collect(h, sg, act, lc) ==
    LET roots == {sg[i] : i \in 1..Len(sg)} \cup {act}
                 \cup {lc[t].seg : t \in Threads} \cup {lc[t].new : t \in Threads}
    IN  [s \in (DOMAIN h) \cap roots |-> h[s]]

FreeId(h) == CHOOSE s \in SegIds \ DOMAIN h : \A u \in SegIds \ DOMAIN h : s <= u

\* Truncate holds l.mu from its entry to its return; every other critical section
\* of l.mu is a single action, so l.mu is free unless a Truncate is under way.
HoldsMu(t) == t = Truncater /\ pc[t] \notin {"idle", "exit"}
MuFree == \A t \in Threads : ~HoldsMu(t)

\* New on an empty directory: open() creates segment 0 and makes it active.
Init ==
    /\ heap = (1 :> NewSegment(0))
    /\ segments = <<1>>
    /\ vActiveSegment = 1
    /\ hw = -1
    /\ hwWaiters = {}
    /\ closed = FALSE
    /\ hwFile = NoFile
    /\ pc = [t \in Threads |-> "idle"]
    /\ loc = [t \in Threads |-> NoLoc]
    /\ ckpt = "run"
    /\ sig = [r \in Readers |-> NoSig]
    /\ lastOp = Op("New", 0, "nil")
    /\ hwRead = -1
    /\ hwAtClose = -1
    /\ returned = {}
    /\ dupOffsets = {}
    /\ crashed = FALSE

\* ------------------------------------------------------------- Append
\* Append(msgs), entry: the call starts with checkAndPerformSplit.
AppendCall(t, msgs) ==
    /\ pc[t] = "idle"
    /\ NewestOffset + Len(msgs) <= MaxOffset
    /\ pc' = [pc EXCEPT ![t] = "check"]
    /\ loc' = [loc EXCEPT ![t] = [NoLoc EXCEPT !.msgs = msgs, !.before = NewestOffset]]
    /\ lastOp' = NoOp
    /\ UNCHANGED <<logVars, hwVars, histVars, closed, crashed>>

\* Where checkAndPerformSplit returns to: Append goes on to load the active
\* segment; cleanerLoop runs the cleaner unless a split was performed.
AfterSplitCheck(t, split) ==
    IF t \in Appenders THEN "load" ELSE IF split THEN "idle" ELSE "clean"

\* checkAndPerformSplit, head of the loop: load the active segment, CheckSplit.
CheckSplitStep(t) ==
    /\ pc[t] = "check"
    /\ \E rollDue \in BOOLEAN :
         IF CheckSplit(activeSegment, rollDue)
         THEN /\ pc' = [pc EXCEPT ![t] = "split_new"]
              /\ loc' = [loc EXCEPT ![t].seg = vActiveSegment, ![t].split = TRUE]
         ELSE /\ pc' = [pc EXCEPT ![t] = AfterSplitCheck(t, loc[t].split)]
              /\ loc' = [loc EXCEPT ![t].seg = NoSeg]
    /\ lastOp' = NoOp
    /\ UNCHANGED <<logVars, hwVars, histVars, closed, crashed>>

\* split: offset := l.NewestOffset() + 1
SplitOffset_Stale(newest) == newest
SplitOffset(newest) == newest + 1

\* split: create the new segment at NewestOffset()+1.
SplitCreate(t) ==
    /\ pc[t] = "split_new"
    /\ DOMAIN heap # SegIds
    /\ LET id == FreeId(heap)
       IN  /\ heap' = heap @@ (id :> NewSegment(SplitOffset(NewestOffset)))
           /\ loc' = [loc EXCEPT ![t].new = id]
    /\ pc' = [pc EXCEPT ![t] = "split_cas"]
    /\ lastOp' = NoOp
    /\ UNCHANGED <<segments, vActiveSegment, hwVars, returned, dupOffsets, closed,
                   crashed>>

\* split: compare-and-swap the active pointer; the loser deletes its segment and
\* checkAndPerformSplit retries (ErrSegmentExists).
CompareAndSwapPointer_Always(cur, old) == TRUE
CompareAndSwapPointer(cur, old) == cur = old

SplitCAS(t) ==
    /\ pc[t] = "split_cas"
    /\ IF CompareAndSwapPointer(vActiveSegment, loc[t].seg)
       THEN /\ vActiveSegment' = loc[t].new
            /\ pc' = [pc EXCEPT ![t] = "split_lock"]
            /\ loc' = loc
            /\ heap' = heap
       ELSE /\ vActiveSegment' = vActiveSegment
            /\ pc' = [pc EXCEPT ![t] = "check"]
            /\ loc' = [loc EXCEPT ![t].new = NoSeg, ![t].seg = NoSeg]
            /\ heap' = Collect([heap EXCEPT ![loc[t].new] = Delete(@)], segments,
                               vActiveSegment, loc')
    /\ lastOp' = NoOp
    /\ UNCHANGED <<segments, hwVars, returned, dupOffsets, closed, crashed>>

\* The cleaner's result on the list sg when it deletes the k oldest segments.
CleanList(sg, k) == SubSeq(sg, k + 1, Len(sg))
CleanHeap(h, sg, k) ==
    [s \in DOMAIN h |-> IF \E i \in 1..k : sg[i] = s THEN Delete(h[s]) ELSE h[s]]

\* split, under l.mu: append the new segment to the list and run the cleaner.
SplitAppend(t) ==
    /\ pc[t] = "split_lock"
    /\ MuFree
    /\ LET sg == Append(segments, loc[t].new)
       IN  \E k \in CleanChoices(sg) :
             /\ segments' = CleanList(sg, k)
             /\ loc' = [loc EXCEPT ![t].new = NoSeg]
             /\ heap' = Collect(CleanHeap(heap, sg, k), segments', vActiveSegment, loc')
    /\ pc' = [pc EXCEPT ![t] = "seal"]
    /\ lastOp' = NoOp
    /\ UNCHANGED <<vActiveSegment, hwVars, returned, dupOffsets, closed, crashed>>

\* checkAndPerformSplit: activeSegment.Seal() after a successful split, then loop.
SealStep(t) ==
    /\ pc[t] = "seal"
    /\ loc' = [loc EXCEPT ![t].seg = NoSeg]
    /\ heap' = Collect([heap EXCEPT ![loc[t].seg] = Seal(@)], segments,
                       vActiveSegment, loc')
    /\ pc' = [pc EXCEPT ![t] = "check"]
    /\ lastOp' = NoOp
    /\ UNCHANGED <<segments, vActiveSegment, hwVars, returned, dupOffsets, closed,
                   crashed>>

\* Append: baseOffset = segment.NextOffset() of the segment just loaded.
AppendBase_Newest(s) == NextOffset(s) - 1
AppendBase(s) == NextOffset(s)

\* Append: segment = l.activeSegment(); baseOffset = segment.NextOffset().
AppendLoad(t) ==
    /\ pc[t] = "load"
    /\ loc' = [loc EXCEPT ![t].seg = vActiveSegment,
                          ![t].base = AppendBase(activeSegment)]
    /\ pc' = [pc EXCEPT ![t] = "write"]
    /\ lastOp' = NoOp
    /\ UNCHANGED <<logVars, hwVars, histVars, closed, crashed>>

Offsets(entries) == [i \in 1..Len(entries) |-> entries[i].off]
Range(f) == {f[i] : i \in DOMAIN f}

\* l.append: segment.WriteMessageSet, then the entries' offsets are returned.
AppendWrite(t) ==
    /\ pc[t] = "write"
    /\ LET s == loc[t].seg
           entries == NewMessageSetFromProto(loc[t].base, loc[t].msgs)
       IN  /\ loc' = [loc EXCEPT ![t] = NoLoc]
           /\ IF CanWrite(heap[s], entries)
              THEN /\ heap' = Collect([heap EXCEPT ![s] = WriteMessageSet(@, entries)],
                                      segments, vActiveSegment, loc')
                   /\ lastOp' = [Op("Append", 0, "nil") EXCEPT !.by = t,
                                    !.offs = Offsets(entries), !.flag = loc[t].split]
                   /\ returned' = returned \cup Range(Offsets(entries))
                   /\ dupOffsets' = dupOffsets \cup (returned \cap Range(Offsets(entries)))
              ELSE /\ heap' = Collect(heap, segments, vActiveSegment, loc')
                   /\ lastOp' = [Op("Append", 0, "err") EXCEPT !.by = t]
                   /\ UNCHANGED <<returned, dupOffsets>>
    /\ pc' = [pc EXCEPT ![t] = "idle"]
    /\ UNCHANGED <<segments, vActiveSegment, hwVars, closed, crashed>>

\* -------------------------------------------------------- cleanerLoop
\* The ticker fires: the loop calls checkAndPerformSplit.
CleanerTick ==
    /\ pc[Cleaner] = "idle"
    /\ pc' = [pc EXCEPT ![Cleaner] = "check"]
    /\ loc' = [loc EXCEPT ![Cleaner] = NoLoc]
    /\ lastOp' = NoOp
    /\ UNCHANGED <<logVars, hwVars, histVars, closed, crashed>>

\* No split was performed: run the cleaner under l.mu.
CleanerClean ==
    /\ pc[Cleaner] = "clean"
    /\ MuFree
    /\ \E k \in CleanChoices(segments) :
         /\ segments' = CleanList(segments, k)
         /\ heap' = Collect(CleanHeap(heap, segments, k), segments', vActiveSegment, loc)
    /\ pc' = [pc EXCEPT ![Cleaner] = "idle"]
    /\ lastOp' = NoOp
    /\ UNCHANGED <<vActiveSegment, loc, hwVars, returned, dupOffsets, closed, crashed>>

\* <-l.closed: the loop returns.
CleanerExit ==
    /\ pc[Cleaner] = "idle"
    /\ closed
    /\ pc' = [pc EXCEPT ![Cleaner] = "exit"]
    /\ lastOp' = NoOp
    /\ UNCHANGED <<logVars, loc, hwVars, histVars, closed, crashed>>

\* ----------------------------------------------------------- Truncate
\* Truncate: segment, idx := findSegment(l.segments, offset)
TruncateTarget_Clamped(h, sg, offset) ==
    IF findSegment(h, sg, offset) = 0 THEN Len(sg) ELSE findSegment(h, sg, offset)
TruncateTarget(h, sg, offset) == findSegment(h, sg, offset)

\* Truncate's copy loop keeps a scanned record while ms.Offset() < offset.
TruncateKeeps_Inclusive(msOffset, offset) == msOffset <= offset
TruncateKeeps(msOffset, offset) == msOffset < offset

\* What the scanner yields: the segment's records in file order; the scan of a
\* deleted segment fails at once, which ends the copy loop like the end of file.
Scanned(s) == IF s.deleted THEN <<>> ELSE s.log

\* The records the copy loop passes to newSegment: it stops at the first record
\* that is not kept.
RECURSIVE ScanCopy(_, _)
ScanCopy(log, offset) ==
    IF log = <<>> \/ ~TruncateKeeps(Head(log).off, offset) THEN <<>>
    ELSE <<Head(log)>> \o ScanCopy(Tail(log), offset)

\* newSegment.WriteMessageSet(ms, []*Entry{entry}) for each copied record.
RECURSIVE CopyInto(_, _)
CopyInto(s, recs) ==
    IF recs = <<>> THEN s ELSE CopyInto(WriteMessageSet(s, <<Head(recs)>>), Tail(recs))

RECURSIVE CopyAccepted(_, _)
CopyAccepted(s, recs) ==
    \/ recs = <<>>
    \/ /\ CanWrite(s, <<Head(recs)>>)
       /\ CopyAccepted(WriteMessageSet(s, <<Head(recs)>>), Tail(recs))

\* Truncate(offset), the whole call: it holds l.mu from entry to return.
Truncate(offset) ==
    LET idx == TruncateTarget(heap, segments, offset)
        n == Len(segments)
    IN  /\ MuFree
        /\ IF idx = 0
           THEN /\ lastOp' = Op("Truncate", offset, "nil")
                /\ UNCHANGED <<logVars, hwVars, thrVars, histVars, closed, crashed>>
           ELSE
             LET target == segments[idx]
                 seg == heap[target]
                 \* "Delete the segment if its base offset is the target offset,
                 \* provided it's not the first segment."
                 replace == ~(seg.BaseOffset = offset /\ idx # 1)
                 following == {segments[i] : i \in (idx + 1)..n}
                 gone == IF replace THEN following ELSE following \cup {target}
                 h1 == [s \in DOMAIN heap |-> IF s \in gone THEN Delete(heap[s]) ELSE heap[s]]
                 kept == SubSeq(segments, 1, idx - 1)
                 copied == ScanCopy(Scanned(seg), offset)
                 fresh == NewSegment(seg.BaseOffset)
             IN  /\ replace => DOMAIN heap # SegIds
                 /\ IF replace /\ ~CopyAccepted(fresh, copied)
                    THEN \* a write into the replacement failed: return err
                         /\ heap' = Collect(h1, segments, vActiveSegment, loc)
                         /\ UNCHANGED <<segments, vActiveSegment, returned, dupOffsets>>
                         /\ lastOp' = Op("Truncate", offset, "err")
                    ELSE LET id == FreeId(heap)
                             \* newSegment.Replace(segment): the old files are gone
                             h2 == IF replace
                                   THEN [h1 EXCEPT ![target] = Delete(@)]
                                            @@ (id :> CopyInto(fresh, copied))
                                   ELSE h1
                             sg == IF replace THEN Append(kept, id) ELSE kept
                         IN  /\ segments' = sg
                             /\ vActiveSegment' = sg[Len(sg)]
                             /\ heap' = Collect(h2, sg, sg[Len(sg)], loc)
                             /\ returned' = {x \in returned : x < offset}
                             /\ UNCHANGED dupOffsets
                             /\ lastOp' = [Op("Truncate", offset, "nil") EXCEPT
                                   !.res = Cardinality(Listed(heap, segments)
                                                       \ Listed(h2, sg))]
                 /\ UNCHANGED <<hwVars, thrVars, closed, crashed>>

\* ------------------------------------------- Truncate, step by step
\* The same call as a sequence of steps of the thread Truncater, for the
\* specifications in which other threads run, and calls fail, while Truncate holds
\* l.mu.  l.mu.Lock(); segment, idx := findSegment(l.segments, offset).
TruncateFind(offset) ==
    /\ pc[Truncater] = "idle"
    /\ MuFree
    /\ LET idx == TruncateTarget(heap, segments, offset)
       IN  IF idx = 0
           THEN /\ lastOp' = Op("Truncate", offset, "nil")
                /\ UNCHANGED thrVars
           ELSE /\ pc' = [pc EXCEPT ![Truncater] = "trunc_following"]
                /\ loc' = [loc EXCEPT ![Truncater] =
                             [NoLoc EXCEPT !.seg = segments[idx], !.idx = idx,
                                           !.i = idx + 1, !.base = offset]]
                /\ lastOp' = NoOp
    /\ UNCHANGED <<logVars, hwVars, histVars, closed, crashed>>

\* "Delete all following segments": one turn of the loop, or its exit.
TruncateDeleteFollowing ==
    /\ pc[Truncater] = "trunc_following"
    /\ LET i == loc[Truncater].i
       IN  IF i <= Len(segments)
           THEN /\ heap' = [heap EXCEPT ![segments[i]] = Delete(@)]
                /\ loc' = [loc EXCEPT ![Truncater].i = i + 1]
                /\ pc' = pc
           ELSE /\ pc' = [pc EXCEPT ![Truncater] = "trunc_target"]
                /\ UNCHANGED <<heap, loc>>
    /\ lastOp' = NoOp
    /\ UNCHANGED <<segments, vActiveSegment, hwVars, histVars, closed, crashed>>

\* replace: the segment containing offset is rewritten, not deleted.
TruncateReplaces(t) ==
    ~(heap[loc[t].seg].BaseOffset = loc[t].base /\ loc[t].idx # 1)

\* "Delete the segment if its base offset is the target offset, provided it's not
\* the first segment."
TruncateDeleteTarget ==
    /\ pc[Truncater] = "trunc_target"
    /\ IF TruncateReplaces(Truncater)
       THEN /\ pc' = [pc EXCEPT ![Truncater] = "trunc_create"]
            /\ heap' = heap
       ELSE /\ pc' = [pc EXCEPT ![Truncater] = "trunc_store"]
            /\ heap' = [heap EXCEPT ![loc[Truncater].seg] = Delete(@)]
    /\ lastOp' = NoOp
    /\ UNCHANGED <<segments, vActiveSegment, loc, hwVars, histVars, closed, crashed>>

\* Truncate returns an error: defer l.mu.Unlock(); l.segments and the active
\* pointer are as they were.
TruncateReturnsError ==
    /\ pc' = [pc EXCEPT ![Truncater] = "idle"]
    /\ loc' = [loc EXCEPT ![Truncater] = NoLoc]
    /\ heap' = Collect(heap, segments, vActiveSegment, loc')
    /\ lastOp' = Op("Truncate", loc[Truncater].base, "err")
    /\ UNCHANGED <<segments, vActiveSegment, hwVars, histVars, closed, crashed>>

\* ss = NewSegmentScanner(segment); newSegment := NewSegment(segment.path,
\* segment.BaseOffset, ..., truncatedSuffix); then the copy loop over ss.Scan().
TruncateNewSegment ==
    /\ pc[Truncater] = "trunc_create"
    /\ DOMAIN heap # SegIds
    /\ LET id == FreeId(heap)
           seg == heap[loc[Truncater].seg]
           fresh == NewSegment(seg.BaseOffset)
           copied == ScanCopy(Scanned(seg), loc[Truncater].base)
       IN  IF CopyAccepted(fresh, copied)
           THEN /\ heap' = heap @@ (id :> CopyInto(fresh, copied))
                /\ loc' = [loc EXCEPT ![Truncater].new = id]
                /\ pc' = [pc EXCEPT ![Truncater] = "trunc_store"]
                /\ lastOp' = NoOp
                /\ UNCHANGED <<segments, vActiveSegment, hwVars, histVars, closed,
                               crashed>>
           ELSE TruncateReturnsError

\* newSegment.Replace(segment) if replace; then the active pointer and l.segments
\* are stored, and l.mu is released.
TruncateStore ==
    /\ pc[Truncater] = "trunc_store"
    /\ LET t == Truncater
           replace == TruncateReplaces(t)
           kept == SubSeq(segments, 1, loc[t].idx - 1)
           sg == IF replace THEN Append(kept, loc[t].new) ELSE kept
           h2 == IF replace THEN [heap EXCEPT ![loc[t].seg] = Delete(@)] ELSE heap
       IN  /\ segments' = sg
           /\ vActiveSegment' = sg[Len(sg)]
           /\ loc' = [loc EXCEPT ![t] = NoLoc]
           /\ heap' = Collect(h2, sg, sg[Len(sg)], loc')
           /\ returned' = {x \in returned : x < loc[t].base}
           /\ lastOp' = [Op("Truncate", loc[t].base, "nil") EXCEPT
                           !.res = Cardinality(Listed(heap, segments) \ Listed(h2, sg))]
    /\ pc' = [pc EXCEPT ![Truncater] = "idle"]
    /\ UNCHANGED <<hwVars, dupOffsets, closed, crashed>>

\* The call of Truncate's next step fails: Delete of a following segment, Delete of
\* the target, NewSegment, or Replace.
TruncateFails ==
    /\ \/ pc[Truncater] = "trunc_following" /\ loc[Truncater].i <= Len(segments)
       \/ pc[Truncater] = "trunc_target" /\ ~TruncateReplaces(Truncater)
       \/ pc[Truncater] = "trunc_create"
       \/ pc[Truncater] = "trunc_store" /\ TruncateReplaces(Truncater)
    /\ TruncateReturnsError

\* ------------------------------------------------ failures of a split
\* Where a thread goes after an error: Append returns it to its caller; cleanerLoop
\* logs it and goes on to wait for its next tick ("continue").
AfterError_Return(t) == IF t = Cleaner THEN "exit" ELSE "idle"
AfterError(t) == "idle"

\* checkAndPerformSplit returns (false, err).
SplitReturnsError(t) ==
    /\ pc' = [pc EXCEPT ![t] = AfterError(t)]
    /\ lastOp' = IF t \in Appenders THEN [Op("Append", 0, "err") EXCEPT !.by = t]
                 ELSE NoOp

\* split: NewSegment fails.
SplitCreateFails(t) ==
    /\ pc[t] = "split_new"
    /\ SplitReturnsError(t)
    /\ loc' = [loc EXCEPT ![t] = NoLoc]
    /\ heap' = Collect(heap, segments, vActiveSegment, loc')
    /\ UNCHANGED <<segments, vActiveSegment, hwVars, returned, dupOffsets, closed,
                   crashed>>

\* A cleaner run that fails after deleting the k oldest segments of sg.
FailedCleanChoices(sg) == 0..(Len(sg) - 2)

\* split, under l.mu: the new segment is appended, then l.cleaner.Clean fails; the
\* list it returned is dropped and split returns the error, so the caller does not
\* Seal.
SplitCleanFails(t) ==
    /\ pc[t] = "split_lock"
    /\ MuFree
    /\ LET sg == Append(segments, loc[t].new)
       IN  \E k \in FailedCleanChoices(sg) :
             /\ segments' = sg
             /\ loc' = [loc EXCEPT ![t] = NoLoc]
             /\ heap' = Collect(CleanHeap(heap, sg, k), segments', vActiveSegment, loc')
    /\ SplitReturnsError(t)
    /\ UNCHANGED <<vActiveSegment, hwVars, returned, dupOffsets, closed, crashed>>

\* cleanerLoop, under l.mu: l.cleaner.Clean fails; the error is logged and
\* l.segments is left as it was.
CleanerCleanFails ==
    /\ pc[Cleaner] = "clean"
    /\ MuFree
    /\ \E k \in FailedCleanChoices(segments) :
         heap' = Collect(CleanHeap(heap, segments, k), segments, vActiveSegment, loc)
    /\ pc' = [pc EXCEPT ![Cleaner] = AfterError(Cleaner)]
    /\ lastOp' = NoOp
    /\ UNCHANGED <<segments, vActiveSegment, loc, hwVars, returned, dupOffsets, closed,
                   crashed>>

\* ----------------------------------------------------- high watermark
\* SetHighWatermark: if hw > l.hw { l.hw = hw; ... }
SetHWValue_Unguarded(cur, v) == v
SetHWValue(cur, v) == IF v > cur THEN v ELSE cur

\* notifyHWWaiters: the waiters whose channel is closed and whose entry is deleted.
Notified_First(waiters) == IF waiters = {} THEN {} ELSE {CHOOSE r \in waiters : TRUE}
Notified(waiters) == waiters

\* SetHighWatermark(v), under l.mu.
SetHighWatermark(v) ==
    /\ MuFree
    /\ hw' = SetHWValue(hw, v)
    /\ IF v > hw
       THEN /\ hwWaiters' = hwWaiters \ Notified(hwWaiters)
            /\ sig' = [r \in Readers |->
                         IF r \in Notified(hwWaiters) THEN [sig[r] EXCEPT !.st = "closed"]
                         ELSE sig[r]]
       ELSE UNCHANGED <<hwWaiters, sig>>
    /\ lastOp' = [Op("SetHighWatermark", v, "nil") EXCEPT
                    !.flag = v > hw,
                    !.res = IF v > hw THEN Cardinality(Notified(hwWaiters)) ELSE 0]
    /\ UNCHANGED <<logVars, thrVars, histVars, hwRead, hwFile, ckpt, hwAtClose,
                   closed, crashed>>

\* HighWatermark(), under l.mu.RLock.
HighWatermark ==
    /\ MuFree
    /\ hwRead' = hw
    /\ lastOp' = [Op("HighWatermark", 0, "nil") EXCEPT !.res = hw]
    /\ UNCHANGED <<logVars, thrVars, histVars, hw, hwWaiters, sig, hwFile, ckpt,
                   hwAtClose, closed, crashed>>

\* waitForHW: "if c.hw != hw { close(wait) } else { c.hwWaiters[r] = wait }"
WaitRegisters_Always(cur, h) == TRUE
WaitRegisters(cur, h) == cur = h

\* waitForHW(r, h), under l.mu.  A reader calls it again only once its previous
\* signal fired or it has withdrawn with removeHWWaiter.
waitForHW(r, h) ==
    /\ MuFree
    /\ sig[r].st # "open" \/ sig[r].removed
    /\ IF WaitRegisters(hw, h)
       THEN /\ sig' = [sig EXCEPT ![r] = [st |-> "open", h |-> h, removed |-> FALSE]]
            /\ hwWaiters' = hwWaiters \cup {r}
       ELSE /\ sig' = [sig EXCEPT ![r] = [st |-> "closed", h |-> h, removed |-> FALSE]]
            /\ hwWaiters' = hwWaiters
    /\ lastOp' = Op("waitForHW", h, "nil")
    /\ UNCHANGED <<logVars, thrVars, histVars, hw, hwRead, hwFile, ckpt, hwAtClose,
                   closed, crashed>>

\* removeHWWaiter(r), under l.mu: delete(c.hwWaiters, r); the channel is not closed.
removeHWWaiter(r) ==
    /\ MuFree
    /\ sig[r].st # "none"
    /\ hwWaiters' = hwWaiters \ {r}
    /\ sig' = [sig EXCEPT ![r].removed = @ \/ r \in hwWaiters]
    /\ lastOp' = Op("removeHWWaiter", 0, "nil")
    /\ UNCHANGED <<logVars, thrVars, histVars, hw, hwRead, hwFile, ckpt, hwAtClose,
                   closed, crashed>>

\* checkpointHW: the file's new contents, written atomically.
checkpointHW(cur) == FormatInt(cur)

\* checkpointHWLoop: the ticker fires; checkpointHW under l.mu.RLock.  The select
\* may take the ticker's case even when l.closed is closed.
CheckpointTick ==
    /\ MuFree
    /\ ckpt = "run"
    /\ hwFile' = checkpointHW(hw)
    /\ lastOp' = NoOp
    /\ UNCHANGED <<logVars, thrVars, histVars, hw, hwWaiters, sig, hwRead, ckpt,
                   hwAtClose, closed, crashed>>

\* checkpointHWLoop: <-l.closed, return.
CheckpointExit ==
    /\ ckpt = "run"
    /\ closed
    /\ ckpt' = "exit"
    /\ lastOp' = NoOp
    /\ UNCHANGED <<logVars, thrVars, histVars, hw, hwWaiters, sig, hwRead, hwFile,
                   hwAtClose, closed, crashed>>

\* -------------------------------------------------- Close, Delete, New
\* Close: what it leaves in the checkpoint file.
CloseFlush_Skipped(file, cur) == file
CloseFlush(file, cur) == checkpointHW(cur)

\* Close(), under l.mu: checkpoint, close(l.closed), close every listed segment.
\* Closing the closed channel again panics.
Close ==
    /\ MuFree
    /\ hwFile' = CloseFlush(hwFile, hw)
    /\ hwAtClose' = hw
    /\ IF closed
       THEN /\ crashed' = TRUE
            /\ UNCHANGED <<heap, closed>>
       ELSE /\ closed' = TRUE
            /\ heap' = [s \in DOMAIN heap |->
                          IF \E i \in 1..Len(segments) : segments[i] = s
                          THEN CloseSegment(heap[s]) ELSE heap[s]]
            /\ UNCHANGED crashed
    /\ lastOp' = Op("Close", 0, "nil")
    /\ UNCHANGED <<segments, vActiveSegment, thrVars, histVars, hw, hwWaiters, sig,
                   hwRead, ckpt>>

\* Delete(): Close, then os.RemoveAll(l.Path).
DeleteLog ==
    /\ MuFree
    /\ hwAtClose' = hw
    /\ IF closed
       THEN \* Close panics before anything is removed
            /\ crashed' = TRUE
            /\ hwFile' = CloseFlush(hwFile, hw)
            /\ UNCHANGED <<heap, closed>>
       ELSE /\ closed' = TRUE
            /\ hwFile' = NoFile
            /\ heap' = [s \in DOMAIN heap |-> Delete(heap[s])]
            /\ UNCHANGED crashed
    /\ lastOp' = Op("Delete", 0, "nil")
    /\ UNCHANGED <<segments, vActiveSegment, thrVars, histVars, hw, hwWaiters, sig,
                   hwRead, ckpt>>

\* The segment files of the directory, in name order: one per Segment that was
\* not deleted.
RECURSIVE ByBaseOffset(_, _)
ByBaseOffset(h, ids) ==
    IF ids = {} THEN <<>>
    ELSE LET m == CHOOSE s \in ids : \A u \in ids : h[s].BaseOffset <= h[u].BaseOffset
         IN  <<m>> \o ByBaseOffset(h, ids \ {m})

\* NewSegment(path, baseOffset, maxBytes, false): a segment reopened from its files.
Reopen(s) ==
    [NewSegment(s.BaseOffset) EXCEPT
        !.log = s.log,
        !.nextOffset = IF s.log = <<>> THEN s.BaseOffset ELSE s.log[Len(s.log)].off + 1]

\* open(): the recovered high watermark; -1 when there is no checkpoint file.
RecoveredHW_Zero(file) == IF file = NoFile THEN 0 ELSE ParseInt(file).val
RecoveredHW(file) == IF file = NoFile THEN -1 ELSE ParseInt(file).val

\* New(opts) on the directory of a log that was closed: a new process.
New ==
    /\ closed
    /\ IF hwFile # NoFile /\ ~ParseInt(hwFile).ok
       THEN /\ lastOp' = Op("New", 0, "err")
            /\ UNCHANGED <<logVars, hwVars, thrVars, closed, crashed>>
       ELSE LET files == ByBaseOffset(heap, {s \in DOMAIN heap : ~heap[s].deleted})
                k == Len(files)
            IN  /\ heap' = IF k = 0 THEN (1 :> NewSegment(0))
                           ELSE [i \in 1..k |-> Reopen(heap[files[i]])]
                /\ segments' = IF k = 0 THEN <<1>> ELSE [i \in 1..k |-> i]
                /\ vActiveSegment' = IF k = 0 THEN 1 ELSE k
                /\ hw' = RecoveredHW(hwFile)
                /\ hwWaiters' = {}
                /\ sig' = [r \in Readers |-> NoSig]
                /\ pc' = [t \in Threads |-> "idle"]
                /\ loc' = [t \in Threads |-> NoLoc]
                /\ ckpt' = "run"
                /\ closed' = FALSE
                /\ crashed' = FALSE
                /\ lastOp' = Op("New", 0, "nil")
                /\ UNCHANGED <<hwRead, hwFile, hwAtClose>>
    /\ UNCHANGED <<returned, dupOffsets>>

\* ------------------------------------------------- OffsetForTimestamp
\* Which segment is searched first: segments[0] if idx == 0, else segments[idx-1]
\* (idx is 0-based; the result is a 1-based position in the list).
FirstSearched(idx) == IF idx = 0 THEN 1 ELSE idx

\* OffsetForTimestamp(timestamp): [err, res]
OffsetForTimestampResult(h, sg, timestamp) ==
    LET f == findSegmentIndexByTimestamp(h, sg, timestamp)
        idx == f.idx
        seg == h[sg[FirstSearched(idx)]]
        e == findEntryByTimestamp(seg, timestamp)
    IN  IF f.err THEN [err |-> TRUE, res |-> 0]
        ELSE IF e # 0 THEN [err |-> FALSE, res |-> seg.log[e].off]
        ELSE IF idx < Len(sg)
             THEN LET nxt == h[sg[idx + 1]]
                      e2 == findEntryByTimestamp(nxt, timestamp)
                  IN  IF e2 = 0 THEN [err |-> TRUE, res |-> 0]
                      ELSE [err |-> FALSE, res |-> nxt.log[e2].off]
             ELSE [err |-> FALSE, res |-> NextOffset(h[sg[Len(sg)]])]

\* OffsetForTimestamp(timestamp), under l.mu.RLock.
OffsetForTimestamp(timestamp) ==
    /\ MuFree
    /\ LET r == OffsetForTimestampResult(heap, segments, timestamp)
       IN  lastOp' = [Op("OffsetForTimestamp", timestamp,
                         IF r.err THEN "err" ELSE "nil") EXCEPT !.res = r.res]
    /\ UNCHANGED <<logVars, hwVars, thrVars, histVars, closed, crashed>>

\* ----------------------------------------------------- specifications
Zeros(n) == [i \in 1..n |-> 0]
Batches == {Zeros(n) : n \in 1..MaxBatch}
Singles == {Zeros(1)}
TruncateArgs == 0..(MaxOffset + 1)
HWArgs == -1..MaxHW

\* No call and no loop iteration is in flight.
AllQuiet == \A t \in Threads : pc[t] \in {"idle", "exit"}

\* The steps of checkAndPerformSplit and of Append after its entry.
SplitStep(t) ==
    \/ CheckSplitStep(t)
    \/ SplitCreate(t)
    \/ SplitCAS(t)
    \/ SplitAppend(t)
    \/ SealStep(t)

AppendStep(t) ==
    \/ AppendLoad(t)
    \/ AppendWrite(t)

\* Call sequences: one client issues Append and Truncate one after the other, and
\* an iteration of cleanerLoop runs between two calls; at most one of them is in
\* flight.  SetHighWatermark and HighWatermark, which other threads issue, fall
\* anywhere between their steps.
Next ==
    \/ \E msgs \in Batches : AllQuiet /\ AppendCall("a1", msgs)
    \/ \E t \in {"a1", Cleaner} : SplitStep(t)
    \/ AppendStep("a1")
    \/ AllQuiet /\ CleanerTick
    \/ CleanerClean
    \/ \E o \in TruncateArgs : AllQuiet /\ Truncate(o)
    \/ \E v \in HWArgs : SetHighWatermark(v)
    \/ HighWatermark

Spec == Init /\ [][Next]_vars

\* Interleavings: two appenders run concurrently, step by step (cleanerLoop's
\* ticker does not fire).
NextConc ==
    \/ \E t \in Appenders : \E msgs \in Batches : AppendCall(t, msgs)
    \/ \E t \in Appenders : SplitStep(t)
    \/ \E t \in Appenders : AppendStep(t)

SpecConc == Init /\ [][NextConc]_vars

\* Two appenders race for the rotation of the same active segment; a thread
\* that has entered Append runs on until it returns.
AppenderRuns(t) == SplitStep(t) \/ AppendStep(t)

NextRotate ==
    \/ \E t \in Appenders : \E msgs \in Singles : AppendCall(t, msgs)
    \/ \E t \in Appenders : AppenderRuns(t)

SpecRotate ==
    Init /\ [][NextRotate]_vars /\ \A t \in Appenders : WF_vars(AppenderRuns(t))

\* Calls on a closed log: one client issues Append, Truncate, Close and Delete
\* one after the other, before and after a Close, until a call panics.
NextClosed ==
    \/ \E msgs \in Singles : ~crashed /\ AllQuiet /\ AppendCall("a1", msgs)
    \/ ~crashed /\ SplitStep("a1")
    \/ ~crashed /\ AppendStep("a1")
    \/ \E o \in TruncateArgs : ~crashed /\ AllQuiet /\ Truncate(o)
    \/ ~crashed /\ AllQuiet /\ Close
    \/ ~crashed /\ AllQuiet /\ DeleteLog

SpecClosed == Init /\ [][NextClosed]_vars

\* The high watermark: its setters, readers and waiters, the checkpoint loop, and
\* Close, Delete and New of a process after the other.  The client issues no call
\* on a log it has closed.
HWInputs == HWArgs \cup {BigHW}

NextHW ==
    \/ \E v \in HWInputs : ~closed /\ SetHighWatermark(v)
    \/ ~closed /\ HighWatermark
    \/ \E r \in Readers : \E h \in HWInputs : ~closed /\ h <= hw /\ waitForHW(r, h)
    \/ \E r \in Readers : ~closed /\ removeHWWaiter(r)
    \/ CheckpointTick
    \/ CheckpointExit
    \/ ~closed /\ Close
    \/ ~closed /\ DeleteLog
    \/ New

SpecHW == Init /\ [][NextHW]_vars

\* Timestamps: one client appends single messages whose timestamps do not
\* decrease, and asks OffsetForTimestamp between two appends.
Timestamps == 1..MaxTs
LastTimestamp ==
    LET ts == {r.ts : r \in Listed(heap, segments)}
    IN  IF ts = {} THEN 0 ELSE CHOOSE x \in ts : \A y \in ts : y <= x

NextTS ==
    \/ \E ts \in Timestamps : AllQuiet /\ ts >= LastTimestamp /\ AppendCall("a1", <<ts>>)
    \/ SplitStep("a1")
    \/ AppendStep("a1")
    \/ \E ts \in 1..(MaxTs + 1) : AllQuiet /\ OffsetForTimestamp(ts)

SpecTS == Init /\ [][NextTS]_vars

\* Races with Truncate: one client appends (and rotates) step by step while
\* another truncates; Truncate, which holds l.mu throughout, falls anywhere
\* between the steps of Append.
NextRace ==
    \/ \E msgs \in Batches : AppendCall("a1", msgs)
    \/ SplitStep("a1")
    \/ AppendStep("a1")
    \/ \E o \in TruncateArgs : pc["a1"] \in {"idle", "split_lock", "seal"} /\ Truncate(o)

SpecRace == Init /\ [][NextRace]_vars

\* Failures in Truncate: one client issues Append (single messages) and Truncate
\* one after the other; in Truncate, Delete, NewSegment and Replace may fail.
NextFail ==
    \/ \E msgs \in Singles : AllQuiet /\ AppendCall("a1", msgs)
    \/ SplitStep("a1")
    \/ AppendStep("a1")
    \/ \E o \in TruncateArgs : AllQuiet /\ TruncateFind(o)
    \/ TruncateDeleteFollowing
    \/ TruncateDeleteTarget
    \/ TruncateNewSegment
    \/ TruncateStore
    \/ TruncateFails

SpecFail == Init /\ [][NextFail]_vars

\* Failures in a rotation: one client appends and an iteration of cleanerLoop runs
\* between two calls; NewSegment and the cleaner may fail.
NextSplitFail ==
    \/ \E msgs \in Batches : AllQuiet /\ AppendCall("a1", msgs)
    \/ \E t \in {"a1", Cleaner} : SplitStep(t)
    \/ AppendStep("a1")
    \/ AllQuiet /\ CleanerTick
    \/ CleanerClean
    \/ \E t \in {"a1", Cleaner} : SplitCreateFails(t)
    \/ \E t \in {"a1", Cleaner} : SplitCleanFails(t)
    \/ CleanerCleanFails

SpecSplitFail == Init /\ [][NextSplitFail]_vars

\* The background loops: checkpointHWLoop runs freely, an iteration of cleanerLoop
\* runs between two Appends of a client, and Close is called once, at any point;
\* the cleaner and the creation of a segment may fail.  A call that has been issued returns
\* (successfully or not), and a select whose l.closed case is ready again and again
\* takes it at some point: Go chooses among the ready cases at random.
CleanerIteration ==
    \/ SplitStep(Cleaner)
    \/ SplitCreateFails(Cleaner)
    \/ SplitCleanFails(Cleaner)
    \/ CleanerClean
    \/ CleanerCleanFails

NextLoop ==
    \/ \E msgs \in Singles : AllQuiet /\ AppendCall("a1", msgs)
    \/ SplitStep("a1")
    \/ AppendStep("a1")
    \/ AllQuiet /\ CleanerTick
    \/ CleanerIteration
    \/ CleanerExit
    \/ CheckpointTick
    \/ CheckpointExit
    \/ ~closed /\ Close

SpecLoop ==
    /\ Init
    /\ [][NextLoop]_vars
    /\ WF_vars(CleanerIteration)
    /\ SF_vars(CleanerExit)
    /\ SF_vars(CheckpointExit)

\* ------------------------------------------------------------ claims
Seq1(k, n) == [i \in 1..n |-> k + i - 1]

\* C1: the values HighWatermark() returns never decrease, hw itself never
\* decreases, and SetHighWatermark(v) with v <= hw leaves hw unchanged, whatever
\* Append, Truncate and cleanerLoop do in between.
C1_HighWatermarkNeverDecreases ==
    [][/\ hw' >= hw
       /\ hwRead' >= hwRead
       /\ (lastOp'.op = "SetHighWatermark" /\ lastOp'.arg <= hw) => hw' = hw]_vars

\* A SetHighWatermark below the current value has just returned, after an Append
\* and a HighWatermark() that returned an advanced value.
C1_Witness ==
    /\ lastOp.op = "SetHighWatermark" /\ lastOp.arg < hw
    /\ hwRead >= 0
    /\ NewestOffset >= 0

\* C2: a successful Append of n messages by the single appender returns the offsets
\* k..k+n-1, k being NewestOffset()+1 at the entry of the call, and NewestOffset()
\* is k+n-1 when it returns; also when the call rolled a new segment first.
C2_AppendReturnsNextOffsets ==
    [][(lastOp'.op = "Append" /\ lastOp'.err = "nil") =>
         LET t == lastOp'.by
             k == loc[t].before + 1
             n == Len(loc[t].msgs)
         IN  /\ lastOp'.offs = Seq1(k, n)
             /\ NewestOffset' = k + n - 1]_vars

\* An Append of two messages has just returned after rolling a new segment, whose
\* first records they are.
C2_Witness ==
    /\ lastOp.op = "Append" /\ lastOp.err = "nil" /\ lastOp.flag
    /\ Len(lastOp.offs) = 2
    /\ activeSegment.BaseOffset = lastOp.offs[1] /\ lastOp.offs[1] > 0

\* C3: no offset is returned by two successful Append calls, and the offsets
\* returned form a gap-free range, under every interleaving of two appenders.
C3_NoOffsetReturnedTwice ==
    /\ dupOffsets = {}
    /\ \A x \in returned : \A y \in 0..x : y \in returned

\* C4: after Truncate(o) returned nil for OldestOffset() <= o <= NewestOffset():
\* NewestOffset() = o - 1, every record of a listed segment has an offset < o, and
\* every record with an offset < o that was listed before is still listed.
C4_TruncatePostcondition ==
    [][(/\ lastOp'.op = "Truncate" /\ lastOp'.err = "nil"
        /\ OldestOffset <= lastOp'.arg /\ lastOp'.arg <= NewestOffset) =>
         /\ NewestOffset' = lastOp'.arg - 1
         /\ \A r \in Listed(heap', segments') : r.off < lastOp'.arg
         /\ \A r \in Listed(heap, segments) :
              r.off < lastOp'.arg => r \in Listed(heap', segments')]_vars

\* A Truncate has just removed records from a log whose oldest segment the cleaner
\* had deleted, and left more than one segment.
C4_Witness ==
    /\ lastOp.op = "Truncate" /\ lastOp.err = "nil" /\ lastOp.res >= 1
    /\ NewestOffset = lastOp.arg - 1
    /\ Len(segments) >= 2
    /\ OldestOffset > 0

\* The same at a segment boundary: o was the base offset of a later segment.
C4_WitnessAtBase ==
    /\ lastOp.op = "Truncate" /\ lastOp.err = "nil" /\ lastOp.res >= 1
    /\ activeSegment.nextOffset = lastOp.arg
    /\ activeSegment.sealed

\* C7: hw <= NewestOffset() in every reachable state.
C7_HWBoundedByLogEnd == hw <= NewestOffset

\* C9: Truncate(o) with o > NewestOffset() returns nil and changes neither the
\* list, nor the active pointer, nor any segment, nor hw, nor the waiters.
C9_TruncateBeyondEndIsNoOp ==
    [][(lastOp'.op = "Truncate" /\ lastOp'.arg > NewestOffset) =>
         /\ lastOp'.err = "nil"
         /\ UNCHANGED <<segments, vActiveSegment, heap, hw, hwWaiters>>]_vars

\* Truncate(NewestOffset()+1) has just returned on a log of several segments that
\* holds records.
C9_Witness ==
    /\ lastOp.op = "Truncate" /\ lastOp.arg = NewestOffset + 1
    /\ Len(segments) >= 2
    /\ NewestOffset >= 1

\* C5: a signal that a completed waitForHW(r, h) returned to a reader that has not
\* withdrawn is closed whenever hw # h, and a SetHighWatermark that raised hw has
\* closed every pending channel and left hwWaiters empty.
C5_NoLostWakeup ==
    /\ \A r \in Readers :
         (sig[r].st # "none" /\ ~sig[r].removed /\ hw # sig[r].h) => sig[r].st = "closed"
    /\ (lastOp.op = "SetHighWatermark" /\ lastOp.flag) =>
         /\ hwWaiters = {}
         /\ \A r \in Readers : ~sig[r].removed => sig[r].st # "open"

\* A SetHighWatermark has just raised hw and closed the channels of both readers.
C5_Witness ==
    /\ lastOp.op = "SetHighWatermark" /\ lastOp.flag /\ lastOp.res = 2
    /\ \A r \in Readers : sig[r].st = "closed" /\ hw > sig[r].h

C8_HighWatermarkSurvivesRestart ==
    (lastOp.op = "New" /\ lastOp.err = "nil") =>
        hw = IF hwFile = NoFile THEN -1 ELSE hwAtClose

\* A log has just been reopened with a recovered high watermark of two digits.
C8_Witness ==
    /\ lastOp.op = "New" /\ lastOp.err = "nil"
    /\ hwFile # NoFile
    /\ hw = BigHW

\* C10: on a log whose timestamps do not decrease and whose segments all hold
\* messages, OffsetForTimestamp(t) returns the smallest offset whose timestamp is
\* >= t, and NewestOffset()+1 when there is none.
EarliestOffset(timestamp) ==
    LET hits == {r \in Listed(heap, segments) : r.ts >= timestamp}
    IN  IF hits = {} THEN NewestOffset + 1
        ELSE (CHOOSE r \in hits : \A q \in hits : r.off <= q.off).off

C10_OffsetForTimestampIsEarliest ==
    (/\ lastOp.op = "OffsetForTimestamp"
     /\ \A i \in 1..Len(segments) : heap[segments[i]].log # <<>>) =>
        /\ lastOp.err = "nil"
        /\ lastOp.res = EarliestOffset(lastOp.arg)

\* The same, on a log of one segment.
C10_SingleSegment ==
    (lastOp.op = "OffsetForTimestamp" /\ Len(segments) = 1 /\ activeSegment.log # <<>>) =>
        /\ lastOp.err = "nil"
        /\ lastOp.res = EarliestOffset(lastOp.arg)

\* C11: across a rotation from A to B every offset written to B is greater than
\* every offset written to A.  A rotated segment holds a record, so B's base offset
\* is greater than A's: of two segments, the one with the greater base offset holds
\* only greater offsets.
C11_RotationOrdersOffsets ==
    \A a \in DOMAIN heap : \A b \in DOMAIN heap :
        heap[a].BaseOffset < heap[b].BaseOffset =>
            \A i \in 1..Len(heap[a].log) : \A j \in 1..Len(heap[b].log) :
                heap[a].log[i].off < heap[b].log[j].off

\* C12: once the log is closed both background loops exit, whatever they were
\* doing; until then neither has exited, and no cleaner or split error ends
\* cleanerLoop.
C12_LoopsExitOnClose ==
    /\ [](~closed => (pc[Cleaner] # "exit" /\ ckpt # "exit"))
    /\ closed ~> (pc[Cleaner] = "exit" /\ ckpt = "exit")

\* The log is closed and both loops have exited, after a rotation by the cleaner.
C12_Witness ==
    /\ closed /\ pc[Cleaner] = "exit" /\ ckpt = "exit"
    /\ Len(segments) > 1

\* C13: the segment list is strictly sorted by base offset, and of two adjacent
\* segments that both hold records the second starts where the first ends.
C13_ListSortedAndContiguous ==
    \A i \in 1..(Len(segments) - 1) :
        LET s == heap[segments[i]]
            u == heap[segments[i + 1]]
        IN  /\ s.BaseOffset < u.BaseOffset
            /\ (s.log # <<>> /\ u.log # <<>>) => u.BaseOffset = s.nextOffset

\* C13, the order alone: the segment list is strictly sorted by base offset.
C13_ListSorted ==
    \A i \in 1..(Len(segments) - 1) :
        heap[segments[i]].BaseOffset < heap[segments[i + 1]].BaseOffset

\* C14: the segment list is never empty, and whenever no call is in flight the
\* active-segment pointer is the last element of the list.
C14_ActiveIsLastOfList ==
    /\ Len(segments) >= 1
    /\ AllQuiet => vActiveSegment = segments[Len(segments)]

\* C14, its first half: the segment list is never empty.
C14_ListNeverEmpty == Len(segments) >= 1

\* No thread is inside checkAndPerformSplit.
NoRotationInFlight ==
    \A t \in Threads : pc[t] \notin {"check", "split_new", "split_cas", "split_lock", "seal"}

\* C15: whenever no rotation is in flight, every segment of the list other than the
\* last is sealed, also after a rotation whose cleaner run failed.
C15_AllButLastSealed ==
    NoRotationInFlight =>
        \A i \in 1..(Len(segments) - 1) : heap[segments[i]].sealed

\* C16: the active segment is never a sealed segment.
C16_ActiveNeverSealed == ~activeSegment.sealed

\* C17: of the threads that race for the rotation of one active segment exactly
\* one wins the compare-and-swap and its segment is listed once; a loser deletes
\* the segment it created and nothing else, leaves the list and the active
\* pointer alone, retries and returns (as long as a segment can still be
\* created, MaxSegs); no two listed segments share a base.
C17_DistinctBases ==
    \A i, j \in 1..Len(segments) :
        i # j => /\ segments[i] # segments[j]
                 /\ heap[segments[i]].BaseOffset # heap[segments[j]].BaseOffset
C17_OneWinner ==
    \A t, u \in Appenders :
        (t # u /\ pc[t] \in {"split_lock", "seal"} /\ pc[u] \in {"split_lock", "seal"})
            => loc[t].seg # loc[u].seg
C17_LoserStep(t) ==
    (pc[t] = "split_cas" /\ pc'[t] = "check") =>
        /\ vActiveSegment # loc[t].seg
        /\ vActiveSegment' = vActiveSegment
        /\ segments' = segments
        /\ \A s \in DOMAIN heap' : heap'[s] = heap[s]
        /\ Range(segments) \cup {vActiveSegment} \subseteq DOMAIN heap'
        /\ loc[t].new \notin Range(segments) \cup {vActiveSegment}
C18_NoLockAcrossCreateOrScan ==
    \A t \in Threads : pc[t] \in {"split_new", "trunc_create"} => ~HoldsMu(t)

\* C20: after a Truncate that returned an error, no segment of l.segments and
\* not the active segment is a deleted one.
C20_FailedTruncateKeepsLiveSegments ==
    (lastOp.op = "Truncate" /\ lastOp.err = "err") =>
        /\ \A i \in 1..Len(segments) : ~heap[segments[i]].deleted
        /\ ~activeSegment.deleted

\* C19: on a closed log a call of Close, Delete, Append or Truncate returns the
\* Closed error, does not panic and leaves the segment list as it is.
C19_ClosedLogRejectsCalls ==
    [][closed =>
        /\ ~crashed'
        /\ segments' = segments
        /\ lastOp'.op \in {"Close", "Delete", "Append", "Truncate"}
              => lastOp'.err = "closed"]_vars
\* C19, the part on crashes alone: no call panics.
C19_NoPanic == ~crashed
\* C19, the part on the list alone: the list of a closed log does not change.
C19_ClosedListFrozen == [][closed => segments' = segments]_vars
====
